---- MODULE Spec2Model ----
(***************************************************************************)
(* GARCH calibration engine (garch_optimization.py, test_garch.py).        *)
(*                                                                         *)
(* Real numbers are carried as integers in fixed units:                    *)
(*   omega, variances        : 1e-6      (0.0001 = 100, 0.01 = 10000)      *)
(*   alpha*, beta*           : 1e-2      (0.85 = 85, the bound 1 = 100)    *)
(*   z0, volatility_scale    : 1e-1      (shock = z0 * scale is in 1e-2)   *)
(*   drift, returns          : 1e-5                                        *)
(*   statistics of a series of n values : 1 / (200 * n)  (see Den)         *)
(*   bracket of find_volatility_scale   : tolerance / 2048                 *)
(* Objective values are noisy (every evaluation re-simulates with fresh    *)
(* randomness), so they are drawn from 0 .. MaxErr.                        *)
(***************************************************************************)
EXTENDS Integers, Sequences, FiniteSets, TLC

VARIABLES
    \* calculate_statistics
    HAS_SCIPY, data, stats, statsPc,
    \* generate_garch_simulation
    simParams, n_simulations, variance_history, shock_history, garch_data,
    emitted_variance, simI, simPc, u1,
    \* generate_garch_simulation of test_garch.py (GARCH(1,1)), run on the
    \* same draws
    variance, garch_data11, sim11Pc,
    \* grid_search_optimization
    grid, gsCell, gsInner, gs_best_params, gs_best_error, count, gs_evaluated, gsPc,
    \* scipy_optimization
    scAttempt, best_result, best_error, best_params, last_outcome, first_with_error,
    all_failed, scPc, sc_ret,
    \* find_volatility_scale
    low, high, error_mid, error_low, error_high, vsIter, vsPc, vs_ret, objective,
    \* run_multiple_realizations
    abs_bias, checkI, all_percentiles_good, rmPc, rm_ret,
    \* fetch_with_retry (scripts/fetch_sp500_data.py)
    max_retries, attempt, fetch_log, sleeps, fwPc, fw_ret,
    \* optimize_garch_parameters
    opt_ret

statVars == <<HAS_SCIPY, data, stats, statsPc>>
sim11Vars == <<variance, garch_data11, sim11Pc>>
simVars == <<simParams, n_simulations, variance_history, shock_history,
             garch_data, emitted_variance, simI, simPc, u1, sim11Vars>>
gridVars == <<grid, gsCell, gsInner, gs_best_params, gs_best_error, count,
              gs_evaluated, gsPc>>
scipyVars == <<scAttempt, best_result, best_error, best_params, last_outcome,
               first_with_error, all_failed, scPc, sc_ret>>
volVars == <<low, high, error_mid, error_low, error_high, vsIter, vsPc, vs_ret,
             objective>>
rmVars == <<abs_bias, checkI, all_percentiles_good, rmPc, rm_ret>>
fwVars == <<max_retries, attempt, fetch_log, sleeps, fwPc, fw_ret>>
vars == <<statVars, simVars, gridVars, scipyVars, volVars, rmVars, fwVars, opt_ret>>

(***************************************************************************)
(* Bounds of the model.                                                    *)
(***************************************************************************)
MaxLen == 4
MaxSteps == 4
MaxErr == 2
MaxValErr == 1
MaxSlope == 2
MaxRetries == 4

Min(a, b) == IF a < b THEN a ELSE b
Max(a, b) == IF a > b THEN a ELSE b

RECURSIVE SumSeq(_)
SumSeq(s) == IF s = <<>> THEN 0 ELSE Head(s) + SumSeq(Tail(s))

\* math.sqrt on the fixed-point grid: the floor of the square root,
\* found by bisection on lo*lo <= x < hi*hi (46340 is the largest root
\* whose square the model checker's integers hold)
RECURSIVE SqrtBetween(_, _, _)
SqrtBetween(x, lo, hi) ==
    IF hi - lo <= 1 THEN lo
    ELSE LET m == (lo + hi) \div 2
         IN  IF m * m <= x THEN SqrtBetween(x, m, hi) ELSE SqrtBetween(x, lo, m)

ISqrt(x) == SqrtBetween(x, 0, Min(x + 1, 46340))

(***************************************************************************)
(* calculate_statistics                                                    *)
(***************************************************************************)
DataVals == {-2, 0, 4}

PercentileRanks == <<5, 10, 25, 75, 90, 95>>

\* statistics of a series of n values are held in units of 1/Den(n), which
\* makes sum/n, (a+b)/2 and numpy's interpolated percentiles exact
Den(n) == 200 * n

sorted(d) == SortSeq(d, LAMBDA a, b : a < b)

\* fallback path: sorted_data[min(int(p * n / 100), n - 1)]  (0-based index)
percentileIndexRoundedUp(p, n) == Min((p * n + 99) \div 100, n - 1)

percentileIndex(p, n) == Min((p * n) \div 100, n - 1)

percentile(d, p) == sorted(d)[percentileIndex(p, Len(d)) + 1]

\* numpy path: np.percentile, default method "linear": the virtual index
\* (n-1)*p/100 is split into its floor and its fraction, and the result is
\* interpolated between the two neighbouring order statistics. Times 100.
np_percentile100(d, p) ==
    LET s == sorted(d)
        n == Len(d)
        lo == ((n - 1) * p) \div 100
        fr == ((n - 1) * p) % 100
        hi == Min(lo + 1, n - 1)
    IN  100 * s[lo + 1] + fr * (s[hi + 1] - s[lo + 1])

\* sorted_data[n // 2] if n % 2 == 1 else (s[n // 2 - 1] + s[n // 2]) / 2,
\* times 2 (np.median computes the same value)
median2(d) ==
    LET s == sorted(d)
        n == Len(d)
    IN  IF n % 2 = 1 THEN 2 * s[n \div 2 + 1]
        ELSE s[n \div 2] + s[n \div 2 + 1]

\* sqrt(sum((x - mean)^2) / n) in units of 1/Den(n):
\* 200 * sqrt(n * sum(x^2) - sum(x)^2)
std_scaled(d) ==
    LET n == Len(d)
        sq == [i \in 1..n |-> d[i] * d[i]]
    IN  ISqrt(40000 * (n * SumSeq(sq) - SumSeq(d) * SumSeq(d)))

FallbackStats(d) ==
    LET n == Len(d)
    IN  [mean |-> 200 * SumSeq(d),
         median |-> 100 * n * median2(d),
         std |-> std_scaled(d),
         p05 |-> Den(n) * percentile(d, 5),
         p10 |-> Den(n) * percentile(d, 10),
         p25 |-> Den(n) * percentile(d, 25),
         p75 |-> Den(n) * percentile(d, 75),
         p90 |-> Den(n) * percentile(d, 90),
         p95 |-> Den(n) * percentile(d, 95)]

NumpyStats(d) ==
    LET n == Len(d)
    IN  [mean |-> 200 * SumSeq(d),
         median |-> 100 * n * median2(d),
         std |-> std_scaled(d),
         p05 |-> 2 * n * np_percentile100(d, 5),
         p10 |-> 2 * n * np_percentile100(d, 10),
         p25 |-> 2 * n * np_percentile100(d, 25),
         p75 |-> 2 * n * np_percentile100(d, 75),
         p90 |-> 2 * n * np_percentile100(d, 90),
         p95 |-> 2 * n * np_percentile100(d, 95)]

NoStats == [mean |-> "none"]
NanStats == [mean |-> "nan"]

\* the numeric libraries are present: lines 34-45
CalcNumpy ==
    /\ statsPc = "call"
    /\ HAS_SCIPY
    /\ Len(data) > 0
    /\ stats' = NumpyStats(data)
    /\ statsPc' = "returned"
    /\ UNCHANGED <<HAS_SCIPY, data>>
    /\ UNCHANGED <<simVars, gridVars, scipyVars, volVars, rmVars, fwVars, opt_ret>>

\* numpy on an empty array: np.mean and np.median give nan with a warning;
\* np.percentile gives nan or raises IndexError, depending on the release
CalcNumpyEmpty ==
    /\ statsPc = "call"
    /\ HAS_SCIPY
    /\ Len(data) = 0
    /\ \/ stats' = NanStats /\ statsPc' = "returned"
       \/ stats' = NoStats /\ statsPc' = "raised"
    /\ UNCHANGED <<HAS_SCIPY, data>>
    /\ UNCHANGED <<simVars, gridVars, scipyVars, volVars, rmVars, fwVars, opt_ret>>

\* the fallback path: lines 48-65
CalcFallback ==
    /\ statsPc = "call"
    /\ ~HAS_SCIPY
    /\ Len(data) > 0
    /\ stats' = FallbackStats(data)
    /\ statsPc' = "returned"
    /\ UNCHANGED <<HAS_SCIPY, data>>
    /\ UNCHANGED <<simVars, gridVars, scipyVars, volVars, rmVars, fwVars, opt_ret>>

\* sum(data) / len(data) with len(data) = 0: ZeroDivisionError
CalcFallbackEmpty ==
    /\ statsPc = "call"
    /\ ~HAS_SCIPY
    /\ Len(data) = 0
    /\ stats' = NoStats
    /\ statsPc' = "raised"
    /\ UNCHANGED <<HAS_SCIPY, data>>
    /\ UNCHANGED <<simVars, gridVars, scipyVars, volVars, rmVars, fwVars, opt_ret>>

RECURSIVE SeqsUpTo(_, _)
SeqsUpTo(S, n) ==
    IF n = 0 THEN {<<>>}
    ELSE LET shorter == SeqsUpTo(S, n - 1)
         IN  shorter \cup {Append(s, x) : s \in {t \in shorter : Len(t) = n - 1}, x \in S}

StatsInit ==
    /\ HAS_SCIPY \in BOOLEAN
    /\ data \in SeqsUpTo(DataVals, MaxLen)
    /\ stats = NoStats
    /\ statsPc = "call"

StatsIdle ==
    /\ HAS_SCIPY = FALSE
    /\ data = <<>>
    /\ stats = NoStats
    /\ statsPc = "idle"

(***************************************************************************)
(* generate_garch_simulation (GARCH(3,2))                                  *)
(***************************************************************************)
VarianceFloor == 100
VarianceCap == 10000

\* <<omega, alpha1, alpha2, alpha3, beta1, beta2, drift, initial_variance,
\*   volatility_scale>>
SimParamSets ==
    { <<120, 6, 4, 2, 80, 6, 980, 1800, 5>>,
      <<100, 8, 5, 2, 85, 5, 980, 2000, 10>>,
      <<5, 0, 0, 0, 10, 0, 0, 100, 10>>,
      <<500, 20, 20, 20, 95, 95, 1200, 4000, 12>>,
      <<120, 6, 4, 2, 80, 6, 980, 20000, 5>>,
      <<120, 6, 4, 2, 80, 6, 980, 50, 5>> }

\* z0 = sqrt(-2 ln u1) * cos(2 pi u2) for u1 > 0: any real number
ZVals == {-20, 0, 2, 10}

omega(p) == p[1]
alpha1(p) == p[2]
alpha2(p) == p[3]
alpha3(p) == p[4]
beta1(p) == p[5]
beta2(p) == p[6]
drift(p) == p[7]
initial_variance(p) == p[8]
volatility_scale(p) == p[9]

StationaritySum(p) == alpha1(p) + alpha2(p) + alpha3(p) + beta1(p) + beta2(p)

\* max(0.0001, min(0.01, new_variance))
Clamp(v) == Max(VarianceFloor, Min(VarianceCap, v))

\* variance_history[-3:] with the oldest entries kept instead
First3(s) == SubSeq(s, 1, 3)

\* the newest window entry is read where the oldest belongs and back
NewVarianceOldestFirst(p, sh, vh) ==
    (100 * omega(p)
     + 100 * alpha1(p) * sh[1] * sh[1]
     + 100 * alpha2(p) * sh[2] * sh[2]
     + 100 * alpha3(p) * sh[3] * sh[3]
     + beta1(p) * vh[1]
     + beta2(p) * vh[2]) \div 100

\* omega + alpha1*sh[-1]^2 + alpha2*sh[-2]^2 + alpha3*sh[-3]^2
\*       + beta1*vh[-1] + beta2*vh[-2]
NewVariance(p, sh, vh) ==
    (100 * omega(p)
     + 100 * alpha1(p) * sh[3] * sh[3]
     + 100 * alpha2(p) * sh[2] * sh[2]
     + 100 * alpha3(p) * sh[1] * sh[1]
     + beta1(p) * vh[3]
     + beta2(p) * vh[2]) \div 100

\* lines 86-90
InitialVarianceHistory(p) == <<initial_variance(p), initial_variance(p), initial_variance(p)>>

\* variance_history[-3:] after the append
Last3(s) == SubSeq(s, Len(s) - 2, Len(s))

\* the loop body for a draw with u1 > 0, whose Box-Muller value is z0:
\* lines 96-124
Step32(z0) ==
    /\ LET shock == z0 * volatility_scale(simParams)
           return_val == drift(simParams) + shock * ISqrt(variance_history[3])
           new_variance == Clamp(NewVariance(simParams, shock_history, variance_history))
       IN  /\ garch_data' = Append(garch_data, return_val)
           /\ emitted_variance' = Append(emitted_variance, variance_history[3])
           /\ variance_history' = Last3(Append(variance_history, new_variance))
           /\ shock_history' = Last3(Append(shock_history, shock))
    /\ simI' = simI + 1
    /\ u1' = "positive"
    /\ UNCHANGED <<simParams, n_simulations, simPc>>

\* one pass of the loop body with u1 > 0: lines 93-124
SimStep ==
    /\ simPc = "loop"
    /\ sim11Pc = "idle"
    /\ simI < n_simulations
    /\ \E z0 \in ZVals : Step32(z0)
    /\ UNCHANGED sim11Vars
    /\ UNCHANGED <<statVars, gridVars, scipyVars, volVars, rmVars, fwVars, opt_ret>>

\* random.random() returns 0.0: math.log(0.0) raises ValueError (line 96)
SimDomainError ==
    /\ simPc = "loop"
    /\ sim11Pc = "idle"
    /\ simI < n_simulations
    /\ simPc' = "raised"
    /\ u1' = "zero"
    /\ UNCHANGED <<simParams, n_simulations, variance_history, shock_history,
                   garch_data, emitted_variance, simI>>
    /\ UNCHANGED sim11Vars
    /\ UNCHANGED <<statVars, gridVars, scipyVars, volVars, rmVars, fwVars, opt_ret>>

\* the range is exhausted: return garch_data (line 126)
SimReturn ==
    /\ simPc = "loop"
    /\ sim11Pc = "idle"
    /\ simI = n_simulations
    /\ simPc' = "returned"
    /\ UNCHANGED <<simParams, n_simulations, variance_history, shock_history,
                   garch_data, emitted_variance, simI, u1>>
    /\ UNCHANGED sim11Vars
    /\ UNCHANGED <<statVars, gridVars, scipyVars, volVars, rmVars, fwVars, opt_ret>>

Sim11Idle ==
    /\ variance = 0
    /\ garch_data11 = <<>>
    /\ sim11Pc = "idle"

SimInit ==
    /\ simParams \in SimParamSets
    /\ n_simulations \in 0..MaxSteps
    /\ variance_history = InitialVarianceHistory(simParams)
    /\ shock_history = <<0, 0, 0>>
    /\ garch_data = <<>>
    /\ emitted_variance = <<>>
    /\ simI = 0
    /\ simPc = "loop"
    /\ u1 = "none"
    /\ Sim11Idle

SimIdle ==
    /\ simParams = <<0, 0, 0, 0, 0, 0, 0, 0, 0>>
    /\ n_simulations = 0
    /\ variance_history = <<0, 0, 0>>
    /\ shock_history = <<0, 0, 0>>
    /\ garch_data = <<>>
    /\ emitted_variance = <<>>
    /\ simI = 0
    /\ simPc = "idle"
    /\ u1 = "none"
    /\ Sim11Idle

(***************************************************************************)
(* generate_garch_simulation of test_garch.py (GARCH(1,1)), fed the draws  *)
(* of the GARCH(3,2) simulation                                            *)
(***************************************************************************)
\* GARCH(3,2) parameter sets with alpha2 = alpha3 = beta2 = 0; the GARCH(1,1)
\* call takes alpha = alpha1, beta = beta1 and the other arguments as they are
PairParamSets ==
    { <<120, 6, 0, 0, 80, 0, 980, 1800, 5>>,
      <<200, 15, 0, 0, 80, 0, 1000, 3000, 5>> }

\* variance = omega + alpha * (shock ** 2) + beta * variance
\* (test_garch.py line 59)
NewVariance11(p, shock, v) ==
    (100 * omega(p) + 100 * alpha1(p) * shock * shock + beta1(p) * v) \div 100

\* max(0.0001, min(0.01, variance)) (test_garch.py line 62)
Clamp11(v) == Max(100, Min(10000, v))

\* the loop body of test_garch.py for the same draw: lines 49-62
Step11(z0) ==
    LET shock == z0 * volatility_scale(simParams)
        return_val == drift(simParams) + shock * ISqrt(variance)
    IN  /\ garch_data11' = Append(garch_data11, return_val)
        /\ variance' = Clamp11(NewVariance11(simParams, shock, variance))
        /\ UNCHANGED sim11Pc

\* both simulators take one pass of their loops on the same pair of draws
PairStep ==
    /\ simPc = "loop"
    /\ sim11Pc = "loop"
    /\ simI < n_simulations
    /\ \E z0 \in ZVals : Step32(z0) /\ Step11(z0)
    /\ UNCHANGED <<statVars, gridVars, scipyVars, volVars, rmVars, fwVars, opt_ret>>

\* the shared draw u1 is 0.0: both raise at math.log (line 96, test_garch.py
\* line 49)
PairDomainError ==
    /\ simPc = "loop"
    /\ sim11Pc = "loop"
    /\ simI < n_simulations
    /\ simPc' = "raised"
    /\ sim11Pc' = "raised"
    /\ u1' = "zero"
    /\ UNCHANGED <<simParams, n_simulations, variance_history, shock_history,
                   garch_data, emitted_variance, simI, variance, garch_data11>>
    /\ UNCHANGED <<statVars, gridVars, scipyVars, volVars, rmVars, fwVars, opt_ret>>

\* both ranges are exhausted: both return their lists
PairReturn ==
    /\ simPc = "loop"
    /\ sim11Pc = "loop"
    /\ simI = n_simulations
    /\ simPc' = "returned"
    /\ sim11Pc' = "returned"
    /\ UNCHANGED <<simParams, n_simulations, variance_history, shock_history,
                   garch_data, emitted_variance, simI, u1, variance, garch_data11>>
    /\ UNCHANGED <<statVars, gridVars, scipyVars, volVars, rmVars, fwVars, opt_ret>>

PairInit ==
    /\ simParams \in PairParamSets
    /\ n_simulations \in 0..MaxSteps
    /\ variance_history = InitialVarianceHistory(simParams)
    /\ shock_history = <<0, 0, 0>>
    /\ garch_data = <<>>
    /\ emitted_variance = <<>>
    /\ simI = 0
    /\ simPc = "loop"
    /\ u1 = "none"
    /\ variance = initial_variance(simParams)
    /\ garch_data11 = <<>>
    /\ sim11Pc = "loop"

(***************************************************************************)
(* grid_search_optimization                                                *)
(***************************************************************************)
\* float('inf'): above every objective value
Inf == MaxErr + 1

None == <<>>

\* the ranges of lines 208-216, in loop order
BuiltinGrid ==
    << <<50, 100, 200, 500>>,
       <<5, 8, 12, 15, 20>>,
       <<5, 8, 12, 15, 20>>,
       <<5, 8, 12, 15, 20>>,
       <<80, 85, 90, 92, 95>>,
       <<80, 85, 90, 92, 95>>,
       <<600, 800, 1000, 1200>>,
       <<1000, 2000, 3000, 4000>>,
       <<8, 9, 10, 11, 12>> >>

\* alpha1 x beta1 x drift, the cell alpha1 = 0.20, beta1 = 0.75 infeasible
Grid222 ==
    << <<100>>, <<5, 20>>, <<5>>, <<5>>, <<30, 75>>, <<5>>, <<600, 800>>, <<2000>>, <<10>> >>

\* the cell alpha1 = 0.20, beta1 = 0.65 sums to exactly 1
GridBoundary ==
    << <<100>>, <<5, 20>>, <<5>>, <<5>>, <<30, 65>>, <<5>>, <<600>>, <<2000>>, <<10, 12>> >>

GridConfigs == {BuiltinGrid, Grid222, GridBoundary}

RECURSIVE ProdLen(_, _, _)
ProdLen(g, from, to) == IF from > to THEN 1 ELSE Len(g[from]) * ProdLen(g, from + 1, to)

\* the loops over omega .. beta2 (lines 225-230), and those over drift ..
\* volatility_scale (lines 235-237)
NumCells(g) == ProdLen(g, 1, 6)
NumInner(g) == ProdLen(g, 7, 9)

\* len(omega_range) * ... * len(volatility_scale_range) (line 221)
total_combinations(g) == ProdLen(g, 1, 9)

\* the value loop j (1..9) holds at position idx of the nest from..to
LoopValue(g, from, to, idx, j) == g[j][((idx \div ProdLen(g, j + 1, to)) % Len(g[j])) + 1]

\* params = [omega, ..., volatility_scale] (line 238) of cell c, inner pass k
GridParams(g, c, k) ==
    [j \in 1..9 |-> IF j <= 6 THEN LoopValue(g, 1, 6, c, j) ELSE LoopValue(g, 7, 9, k, j)]

\* the parameters of cell c that the test of line 232 reads
CellParams(g, c) == GridParams(g, c, 0)

\* if alpha1 + alpha2 + alpha3 + beta1 + beta2 >= 1: continue (line 232)
NonStationaryOff(p) == StationaritySum(p) > 100

NonStationary(p) == StationaritySum(p) >= 100

\* if error < best_error (line 241)
GridImprovesOrTies(error, best) == error <= best

GridImproves(error, best) == error < best

\* an infeasible cell is passed over
GridSkip ==
    /\ gsPc = "loop"
    /\ gsCell < NumCells(grid)
    /\ NonStationary(CellParams(grid, gsCell))
    /\ gsCell' = gsCell + 1
    /\ UNCHANGED <<grid, gsInner, gs_best_params, gs_best_error, count, gs_evaluated, gsPc>>
    /\ UNCHANGED <<statVars, simVars, scipyVars, volVars, rmVars, fwVars, opt_ret>>

\* one pass of the innermost loop body: lines 238-247
GridEval ==
    /\ gsPc = "loop"
    /\ gsCell < NumCells(grid)
    /\ ~NonStationary(CellParams(grid, gsCell))
    /\ LET params == GridParams(grid, gsCell, gsInner)
       IN  \E error \in 0..MaxErr :
             /\ IF GridImproves(error, gs_best_error)
                THEN gs_best_error' = error /\ gs_best_params' = params
                ELSE UNCHANGED <<gs_best_error, gs_best_params>>
             /\ gs_evaluated' = Append(gs_evaluated, [params |-> params, error |-> error])
    /\ count' = count + 1
    /\ IF gsInner + 1 < NumInner(grid)
       THEN gsInner' = gsInner + 1 /\ gsCell' = gsCell
       ELSE gsInner' = 0 /\ gsCell' = gsCell + 1
    /\ UNCHANGED <<grid, gsPc>>
    /\ UNCHANGED <<statVars, simVars, scipyVars, volVars, rmVars, fwVars, opt_ret>>

\* objective_function raises (math.log(0.0) in the simulation): nothing in
\* grid_search_optimization catches it
GridRaise ==
    /\ gsPc = "loop"
    /\ gsCell < NumCells(grid)
    /\ ~NonStationary(CellParams(grid, gsCell))
    /\ gsPc' = "raised"
    /\ UNCHANGED <<grid, gsCell, gsInner, gs_best_params, gs_best_error, count, gs_evaluated>>
    /\ UNCHANGED <<statVars, simVars, scipyVars, volVars, rmVars, fwVars, opt_ret>>

\* return best_params, best_error (line 249)
GridReturn ==
    /\ gsPc = "loop"
    /\ gsCell = NumCells(grid)
    /\ gsPc' = "returned"
    /\ UNCHANGED <<grid, gsCell, gsInner, gs_best_params, gs_best_error, count, gs_evaluated>>
    /\ UNCHANGED <<statVars, simVars, scipyVars, volVars, rmVars, fwVars, opt_ret>>

NoResult == [kind |-> "none"]

\* optimize_garch_parameters without the numeric libraries: lines 538-539
OptimizeGrid ==
    /\ gsPc = "returned"
    /\ opt_ret = NoResult
    /\ opt_ret' = [params |-> gs_best_params,
                   result |-> [type |-> "dict", success |-> TRUE, fun |-> gs_best_error]]
    /\ UNCHANGED <<statVars, simVars, gridVars, scipyVars, volVars, rmVars, fwVars>>

GridInit ==
    /\ grid \in GridConfigs
    /\ gsCell = 0
    /\ gsInner = 0
    /\ gs_best_params = None
    /\ gs_best_error = Inf
    /\ count = 0
    /\ gs_evaluated = <<>>
    /\ gsPc = "loop"

GridIdle ==
    /\ grid = << <<>>, <<>>, <<>>, <<>>, <<>>, <<>>, <<>>, <<>>, <<>> >>
    /\ gsCell = 0
    /\ gsInner = 0
    /\ gs_best_params = None
    /\ gs_best_error = Inf
    /\ count = 0
    /\ gs_evaluated = <<>>
    /\ gsPc = "idle"

(***************************************************************************)
(* scipy_optimization                                                      *)
(***************************************************************************)
\* lines 263-269
starting_points ==
    << <<100, 8, 5, 2, 85, 5, 980, 2000, 10>>,
       <<200, 15, 10, 5, 75, 10, 1000, 3000, 8>>,
       <<50, 5, 3, 1, 90, 2, 950, 1000, 12>>,
       <<300, 20, 15, 8, 65, 15, 1100, 4000, 7>>,
       <<100, 12, 8, 4, 80, 8, 980, 2000, 9>> >>

\* line 285
methods == <<"SLSQP", "L-BFGS-B", "TNC">>

NumAttempts == Len(starting_points) * Len(methods)

\* attempt a (1..15) of the nested loops of lines 293 and 296
StartOf(a) == (a - 1) \div Len(methods) + 1
MethodOf(a) == methods[((a - 1) % Len(methods)) + 1]

\* result.x of attempt a: whatever the solver returned
ResultX(a) == <<"result.x", a>>

\* what one pass of the try block can do: minimize raises, result.success
\* is false, validate_optimization_result raises, or the run is validated;
\* fun is result.fun (the in-loop objective at 5000 steps), test_error the
\* validation error (Inf stands for inf and nan, neither of which is < any
\* number)
Outcomes ==
    {[kind |-> "raised", fun |-> 0, test_error |-> Inf]}
    \cup {[kind |-> "failed", fun |-> f, test_error |-> Inf] : f \in {0, 1}}
    \cup {[kind |-> "validate_raised", fun |-> f, test_error |-> Inf] : f \in {0, 1}}
    \cup {[kind |-> "success", fun |-> f, test_error |-> e] :
             f \in {0, 1}, e \in (0..MaxValErr) \cup {Inf}}

\* if result.success (line 345), reached only when nothing raised before
\* the comparison
Compared(o) == o.kind = "success"

\* if test_error < best_error (line 349)
ScImprovesOrTies(test_error, best) == test_error <= best

ScImproves(test_error, best) == test_error < best

\* except Exception as e: print(...) and go on with the next method
\* (lines 359-360); a reported failure only prints (lines 356-357)
PcAfterStopOnFailure(o) == IF o.kind \in {"raised", "failed"} THEN "returning" ELSE "loop"

PcAfter(o) == "loop"

NoOutcome == "none"

\* return starting_points[0], {'success': False, 'fun': float('inf')} (line 364)
AllFailedReturnsBest ==
    [params |-> best_params,
     result |-> [type |-> "dict", success |-> FALSE, fun |-> Inf]]

AllFailedReturn ==
    [params |-> starting_points[1],
     result |-> [type |-> "dict", success |-> FALSE, fun |-> Inf]]

\* one pass of the body of the two nested loops: lines 297-360
ScAttempt ==
    /\ scPc = "loop"
    /\ scAttempt < NumAttempts
    /\ \E o \in Outcomes :
         LET a == scAttempt + 1
         IN  /\ IF Compared(o) /\ ScImproves(o.test_error, best_error)
                THEN /\ best_result' = [run |-> a, success |-> TRUE, fun |-> o.fun]
                     /\ best_error' = o.test_error
                     /\ best_params' = ResultX(a)
                ELSE UNCHANGED <<best_result, best_error, best_params>>
             /\ last_outcome' = o.kind
             /\ first_with_error' =
                    IF o.kind = "success" /\ o.test_error # Inf
                       /\ first_with_error[o.test_error] = 0
                    THEN [first_with_error EXCEPT ![o.test_error] = a]
                    ELSE first_with_error
             /\ all_failed' = (all_failed /\ o.kind \in {"raised", "failed"})
             /\ scPc' = PcAfter(o)
    /\ scAttempt' = scAttempt + 1
    /\ UNCHANGED sc_ret
    /\ UNCHANGED <<statVars, simVars, gridVars, volVars, rmVars, fwVars, opt_ret>>

\* lines 362-370
ScReturn ==
    /\ \/ scPc = "loop" /\ scAttempt = NumAttempts
       \/ scPc = "returning"
    /\ sc_ret' = IF best_result = None
                 THEN AllFailedReturn
                 ELSE [params |-> best_params,
                       result |-> [type |-> "OptimizeResult", run |-> best_result.run,
                                   success |-> best_result.success,
                                   fun |-> best_result.fun]]
    /\ scPc' = "returned"
    /\ UNCHANGED <<scAttempt, best_result, best_error, best_params, last_outcome,
                   first_with_error, all_failed>>
    /\ UNCHANGED <<statVars, simVars, gridVars, volVars, rmVars, fwVars, opt_ret>>

\* optimize_garch_parameters with the numeric libraries: lines 532-536
OptimizeScipy ==
    /\ scPc = "returned"
    /\ opt_ret = NoResult
    /\ opt_ret' = IF sc_ret.result.type = "dict"
                  THEN [params |-> sc_ret.params, result |-> sc_ret.result]
                  ELSE [params |-> sc_ret.params,
                        result |-> [type |-> "dict",
                                    success |-> sc_ret.result.success,
                                    fun |-> sc_ret.result.fun]]
    /\ UNCHANGED <<statVars, simVars, gridVars, scipyVars, volVars, rmVars, fwVars>>

ScipyInit ==
    /\ scAttempt = 0
    /\ best_result = None
    /\ best_error = Inf
    /\ best_params = None
    /\ last_outcome = NoOutcome
    /\ first_with_error = [e \in 0..MaxValErr |-> 0]
    /\ all_failed = TRUE
    /\ scPc = "loop"
    /\ sc_ret = NoResult

ScipyIdle ==
    /\ scAttempt = 0
    /\ best_result = None
    /\ best_error = Inf
    /\ best_params = None
    /\ last_outcome = NoOutcome
    /\ first_with_error = [e \in 0..MaxValErr |-> 0]
    /\ all_failed = TRUE
    /\ scPc = "idle"
    /\ sc_ret = NoResult

(***************************************************************************)
(* find_volatility_scale                                                   *)
(***************************************************************************)
\* low, high = 0.1, 3.0 and tolerance = 0.001, in units of tolerance / 2048:
\* every midpoint the loop can form is a whole number of units
VolLow == 204800
VolHigh == 6144000
Tolerance == 2048

\* mid = (low + high) / 2 (line 179)
MidNoParens(l, h) == l + h \div 2

Mid(l, h) == (l + h) \div 2

\* error_low < error_mid and error_low < error_high (line 186)
LowerProbeBestOrTied(el, em, eh) == el < em /\ el <= eh

LowerProbeBestSwapped(el, em, eh) == eh < em /\ eh < el

LowerProbeBest(el, em, eh) == el < em /\ el < eh

\* error_high < error_mid and error_high < error_low (line 188)
UpperProbeBest(el, em, eh) == eh < em /\ eh < el

\* while high - low > tolerance, with the tolerance left out of the test
BracketNotEmpty(l, h) == h - l > 0

\* while high - low > tolerance (line 178)
BracketOpen(l, h) == h - l > Tolerance

\* the objective in force: under a fixed seed a function of the scale alone,
\* [m, down, up] standing for the error that falls with slope down to the
\* scale m and rises with slope up after it; Noisy (no slopes) when every
\* evaluation re-simulates with fresh randomness, as the code does
Noisy == [m |-> 0, down |-> 0, up |-> 0]

UnimodalObjectives ==
    {[m |-> VolLow + k * 371200 + j, down |-> a, up |-> b] :
        k \in 0..15, j \in {0, 1000, 123457, 185600}, a \in 1..MaxSlope, b \in 1..MaxSlope}
    \cup {[m |-> VolHigh, down |-> a, up |-> b] : a \in 1..MaxSlope, b \in 1..MaxSlope}

\* objective_vol_scale(vol_scale) under a fixed seed (lines 169-172)
SeededError(fn, scale) ==
    IF scale < fn.m THEN fn.down * (fn.m - scale) ELSE fn.up * (scale - fn.m)

\* the while body after its three evaluations: lines 186-191
VolPass(em, eh, el) ==
    /\ error_mid' = em
    /\ error_high' = eh
    /\ error_low' = el
    /\ IF LowerProbeBest(el, em, eh)
       THEN high' = Mid(low, high) /\ low' = low /\ vsPc' = "loop"
       ELSE IF UpperProbeBest(el, em, eh)
            THEN low' = Mid(low, high) /\ high' = high /\ vsPc' = "loop"
            ELSE UNCHANGED <<low, high>> /\ vsPc' = "break"
    /\ vsIter' = vsIter + 1
    /\ UNCHANGED <<vs_ret, objective>>
    /\ UNCHANGED <<statVars, simVars, gridVars, scipyVars, rmVars, fwVars, opt_ret>>

\* one pass of the while body: lines 179-191
VolIterate ==
    /\ vsPc = "loop"
    /\ objective = Noisy
    /\ BracketOpen(low, high)
    /\ \E em \in 0..MaxErr, eh \in 0..MaxErr, el \in 0..MaxErr : VolPass(em, eh, el)

\* one pass of the while body with the evaluations of a fixed seed:
\* error_mid at mid, error_high at mid + tolerance, error_low at
\* mid - tolerance (lines 179-184)
VolIterateSeeded ==
    /\ vsPc = "loop"
    /\ objective # Noisy
    /\ BracketOpen(low, high)
    /\ LET mid == Mid(low, high)
       IN  VolPass(SeededError(objective, mid),
                   SeededError(objective, mid + Tolerance),
                   SeededError(objective, mid - Tolerance))

\* an evaluation raises (math.log(0.0) in the simulation): not caught
VolRaise ==
    /\ vsPc = "loop"
    /\ BracketOpen(low, high)
    /\ vsPc' = "raised"
    /\ UNCHANGED <<low, high, error_mid, error_low, error_high, vsIter, vs_ret, objective>>
    /\ UNCHANGED <<statVars, simVars, gridVars, scipyVars, rmVars, fwVars, opt_ret>>

\* return (low + high) / 2 (line 193), after the break or once the bracket
\* is no wider than the tolerance
VolReturn ==
    /\ \/ vsPc = "break"
       \/ vsPc = "loop" /\ ~BracketOpen(low, high)
    /\ vs_ret' = Mid(low, high)
    /\ vsPc' = "returned"
    /\ UNCHANGED <<low, high, error_mid, error_low, error_high, vsIter, objective>>
    /\ UNCHANGED <<statVars, simVars, gridVars, scipyVars, rmVars, fwVars, opt_ret>>

VolInit ==
    /\ low = VolLow
    /\ high = VolHigh
    /\ error_mid = 0
    /\ error_low = 0
    /\ error_high = 0
    /\ vsIter = 0
    /\ vsPc = "loop"
    /\ vs_ret = 0
    /\ objective = Noisy

VolSeededInit ==
    /\ low = VolLow
    /\ high = VolHigh
    /\ error_mid = 0
    /\ error_low = 0
    /\ error_high = 0
    /\ vsIter = 0
    /\ vsPc = "loop"
    /\ vs_ret = 0
    /\ objective \in UnimodalObjectives

VolIdle ==
    /\ low = VolLow
    /\ high = VolHigh
    /\ error_mid = 0
    /\ error_low = 0
    /\ error_high = 0
    /\ vsIter = 0
    /\ vsPc = "idle"
    /\ vs_ret = 0
    /\ objective = Noisy

(***************************************************************************)
(* run_multiple_realizations: the percentile matching analysis             *)
(***************************************************************************)
\* the percentile statistics collected in percentile_stats (lines 417-420)
CollectedPercentiles == {"p05", "p10", "p25", "median", "p75", "p90", "p95"}

\* the keys of percentile_checks, in order (lines 483-489)
percentile_checks == <<"p10", "p25", "p50", "p75", "p90">>

\* the tolerance of every entry of percentile_checks, 0.01, in units of 0.001
BiasTolerance == 10

\* abs(mean_val - target_val) of one statistic, in units of 0.001: below,
\* at and above the tolerance
BiasVals == {5, 10, 20}

\* lines 493-496
stat_key(stat) == IF stat = "p50" THEN "median" ELSE stat

\* if bias < tolerance (line 502)
WithinTolerance(bias) == bias < BiasTolerance

\* one pass of the loop over percentile_checks: lines 492-506
RmCheck ==
    /\ rmPc = "loop"
    /\ checkI < Len(percentile_checks)
    /\ LET stat == percentile_checks[checkI + 1]
           bias == abs_bias[stat_key(stat)]
       IN  all_percentiles_good' =
               IF WithinTolerance(bias) THEN all_percentiles_good ELSE FALSE
    /\ checkI' = checkI + 1
    /\ UNCHANGED <<abs_bias, rmPc, rm_ret>>
    /\ UNCHANGED <<statVars, simVars, gridVars, scipyVars, volVars, fwVars, opt_ret>>

\* the loop is over: return the result record (lines 508-519)
RmReturn ==
    /\ rmPc = "loop"
    /\ checkI = Len(percentile_checks)
    /\ rmPc' = "returned"
    /\ rm_ret' = [all_percentiles_good |-> all_percentiles_good]
    /\ UNCHANGED <<abs_bias, checkI, all_percentiles_good>>
    /\ UNCHANGED <<statVars, simVars, gridVars, scipyVars, volVars, fwVars, opt_ret>>

\* the state at line 491: the realizations have been collected, and the mean
\* of each statistic across them lies at some distance from its target
RmInit ==
    /\ abs_bias \in [CollectedPercentiles -> BiasVals]
    /\ checkI = 0
    /\ all_percentiles_good = TRUE
    /\ rmPc = "loop"
    /\ rm_ret = None

RmIdle ==
    /\ abs_bias = [stat \in CollectedPercentiles |-> 0]
    /\ checkI = 0
    /\ all_percentiles_good = TRUE
    /\ rmPc = "idle"
    /\ rm_ret = None

(***************************************************************************)
(* scripts/fetch_sp500_data.py: fetch_with_retry                           *)
(***************************************************************************)
\* what fred.get_series can do on one attempt: return a series of some
\* length (0: hist.empty) or raise an Exception of some class
FetchOutcomes ==
    {[kind |-> "series", len |-> n, exc |-> "none"] : n \in 0..2}
    \cup {[kind |-> "raised", len |-> 0, exc |-> e] : e \in {"HTTPError", "ValueError"}}

\* raise ValueError(f"Failed to fetch data after ...") (line 35)
FetchFailure == [kind |-> "raised", len |-> 0, exc |-> "ValueError", line |-> 35]

\* the except branch always sleeps and goes on
RetryAlways(a, m) == a < m

\* if attempt < max_retries - 1 (line 29), attempt counted from 0
RetryAllowed(a, m) == a < m - 1

\* an attempt returns a non-empty series: return hist (lines 16-22)
FetchReturn ==
    /\ fwPc = "loop"
    /\ attempt < max_retries
    /\ \E o \in FetchOutcomes :
         /\ o.kind = "series"
         /\ o.len > 0
         /\ fetch_log' = Append(fetch_log, o)
         /\ fw_ret' = o
    /\ fwPc' = "returned"
    /\ UNCHANGED <<max_retries, attempt, sleeps>>
    /\ UNCHANGED <<statVars, simVars, gridVars, scipyVars, volVars, rmVars, opt_ret>>

\* an attempt returns an empty series: sleep and take the next value of the
\* range (lines 21-25)
FetchEmpty ==
    /\ fwPc = "loop"
    /\ attempt < max_retries
    /\ \E o \in FetchOutcomes :
         /\ o.kind = "series"
         /\ o.len = 0
         /\ fetch_log' = Append(fetch_log, o)
    /\ sleeps' = sleeps + 1
    /\ attempt' = attempt + 1
    /\ UNCHANGED <<max_retries, fwPc, fw_ret>>
    /\ UNCHANGED <<statVars, simVars, gridVars, scipyVars, volVars, rmVars, opt_ret>>

\* an attempt raises: sleep and go on if it was not the last of the range,
\* re-raise if it was (lines 27-33)
FetchRaise ==
    /\ fwPc = "loop"
    /\ attempt < max_retries
    /\ \E o \in FetchOutcomes :
         /\ o.kind = "raised"
         /\ fetch_log' = Append(fetch_log, o)
         /\ IF RetryAllowed(attempt, max_retries)
            THEN /\ sleeps' = sleeps + 1
                 /\ attempt' = attempt + 1
                 /\ UNCHANGED <<fwPc, fw_ret>>
            ELSE /\ fwPc' = "raised"
                 /\ fw_ret' = [kind |-> "raised", len |-> 0, exc |-> o.exc,
                               line |-> 33]
                 /\ UNCHANGED <<attempt, sleeps>>
    /\ UNCHANGED max_retries
    /\ UNCHANGED <<statVars, simVars, gridVars, scipyVars, volVars, rmVars, opt_ret>>

\* the range is exhausted: raise ValueError (line 35)
FetchExhausted ==
    /\ fwPc = "loop"
    /\ attempt >= max_retries
    /\ fwPc' = "raised"
    /\ fw_ret' = FetchFailure
    /\ UNCHANGED <<max_retries, attempt, fetch_log, sleeps>>
    /\ UNCHANGED <<statVars, simVars, gridVars, scipyVars, volVars, rmVars, opt_ret>>

FwInit ==
    /\ max_retries \in 0..MaxRetries
    /\ attempt = 0
    /\ fetch_log = <<>>
    /\ sleeps = 0
    /\ fwPc = "loop"
    /\ fw_ret = None

FwIdle ==
    /\ max_retries = 0
    /\ attempt = 0
    /\ fetch_log = <<>>
    /\ sleeps = 0
    /\ fwPc = "idle"
    /\ fw_ret = None

(***************************************************************************)
(* Specifications                                                          *)
(***************************************************************************)
InitStats == StatsInit /\ SimIdle /\ GridIdle /\ ScipyIdle /\ VolIdle /\ RmIdle /\ FwIdle /\ opt_ret = NoResult
NextStats == CalcNumpy \/ CalcNumpyEmpty \/ CalcFallback \/ CalcFallbackEmpty
SpecStats == InitStats /\ [][NextStats]_vars

InitSim == SimInit /\ StatsIdle /\ GridIdle /\ ScipyIdle /\ VolIdle /\ RmIdle /\ FwIdle /\ opt_ret = NoResult
NextSim == SimStep \/ SimDomainError \/ SimReturn
SpecSim == InitSim /\ [][NextSim]_vars

InitRm == RmInit /\ StatsIdle /\ SimIdle /\ GridIdle /\ ScipyIdle /\ VolIdle /\ FwIdle /\ opt_ret = NoResult
NextRm == RmCheck \/ RmReturn
SpecRm == InitRm /\ [][NextRm]_vars

InitFw == FwInit /\ StatsIdle /\ SimIdle /\ GridIdle /\ ScipyIdle /\ VolIdle /\ RmIdle /\ opt_ret = NoResult
NextFw == FetchReturn \/ FetchEmpty \/ FetchRaise \/ FetchExhausted
SpecFw == InitFw /\ [][NextFw]_vars

InitPair == PairInit /\ StatsIdle /\ GridIdle /\ ScipyIdle /\ VolIdle /\ RmIdle /\ FwIdle /\ opt_ret = NoResult
NextPair == PairStep \/ PairDomainError \/ PairReturn
SpecPair == InitPair /\ [][NextPair]_vars

InitGrid == GridInit /\ StatsIdle /\ SimIdle /\ ScipyIdle /\ VolIdle /\ RmIdle /\ FwIdle /\ opt_ret = NoResult
NextGrid == GridSkip \/ GridEval \/ GridRaise \/ GridReturn \/ OptimizeGrid
SpecGrid == InitGrid /\ [][NextGrid]_vars

InitScipy == ScipyInit /\ StatsIdle /\ SimIdle /\ GridIdle /\ VolIdle /\ RmIdle /\ FwIdle /\ opt_ret = NoResult
NextScipy == ScAttempt \/ ScReturn \/ OptimizeScipy
SpecScipy == InitScipy /\ [][NextScipy]_vars

InitVol == VolInit /\ StatsIdle /\ SimIdle /\ GridIdle /\ ScipyIdle /\ RmIdle /\ FwIdle /\ opt_ret = NoResult
NextVol == VolIterate \/ VolRaise \/ VolReturn
SpecVol == InitVol /\ [][NextVol]_vars

\* the function is sequential code: while a statement is left to execute,
\* one is executed
SpecVolFair == SpecVol /\ WF_vars(NextVol)

InitVolSeeded == VolSeededInit /\ StatsIdle /\ SimIdle /\ GridIdle /\ ScipyIdle /\ RmIdle /\ FwIdle /\ opt_ret = NoResult
NextVolSeeded == VolIterateSeeded \/ VolReturn
SpecVolSeeded == InitVolSeeded /\ [][NextVolSeeded]_vars

(***************************************************************************)
(* Properties                                                              *)
(***************************************************************************)
InClampRange(v) == VarianceFloor <= v /\ v <= VarianceCap

\* C1: for every parameter set with alpha1+alpha2+alpha3+beta1+beta2 < 1 and
\* every sequence of draws, every value of the variance window and every
\* value under the square root of an emitted return (the first included)
\* lies in [0.0001, 0.01].
C1_VarianceAlwaysClamped ==
    (simPc # "idle" /\ StationaritySum(simParams) < 100) =>
        /\ \A i \in 1..3 : InClampRange(variance_history[i])
        /\ \A i \in DOMAIN emitted_variance : InClampRange(emitted_variance[i])

\* C2 as stated: for n >= 2 the 50th percentile by the nearest-rank rule
\* equals the median the calculator reports.
C2_Percentile50EqualsMedian ==
    (statsPc = "returned" /\ Len(data) >= 2) =>
        Den(Len(data)) * percentile(data, 50) = stats.median

\* C2 amended: for odd n the 50th percentile by the nearest-rank rule is the
\* reported median; for even n it is the upper of the two middle elements,
\* never below the reported median and equal to it exactly when the two
\* middle elements are equal.
C2_Percentile50VersusMedian ==
    (statsPc = "returned" /\ Len(data) >= 2) =>
        LET n == Len(data)
            s == sorted(data)
            p50 == Den(n) * percentile(data, 50)
        IN  /\ n % 2 = 1 => p50 = stats.median
            /\ n % 2 = 0 =>
                 /\ p50 = Den(n) * s[n \div 2 + 1]
                 /\ stats.median <= p50
                 /\ (stats.median = p50) <=> (s[n \div 2] = s[n \div 2 + 1])

C2_Witness ==
    /\ statsPc = "returned"
    /\ Len(data) = 4
    /\ stats.median < Den(4) * percentile(data, 50)

ReportedPercentiles(st) == <<st.p05, st.p10, st.p25, st.p75, st.p90, st.p95>>

\* C3: on either code path every reported percentile p is the element
\* sorted[min(floor(p*n/100), n-1)], a value of the input series.
C3_NearestRankOnBothPaths ==
    (statsPc = "returned" /\ Len(data) >= 1) =>
        \A j \in 1..6 :
            LET n == Len(data)
                rank == Min((PercentileRanks[j] * n) \div 100, n - 1)
            IN  /\ ReportedPercentiles(stats)[j] = Den(n) * sorted(data)[rank + 1]
                /\ \E i \in 1..n : ReportedPercentiles(stats)[j] = Den(n) * data[i]

InfeasibleCells(g) == {c \in 0..(NumCells(g) - 1) : StationaritySum(CellParams(g, c)) >= 100}
FeasibleCells(g) == {c \in 0..(NumCells(g) - 1) : StationaritySum(CellParams(g, c)) < 100}

\* C4: the grid search never evaluates a combination with
\* alpha1+alpha2+alpha3+beta1+beta2 >= 1 and never holds one as best; on
\* return every combination with that sum < 1 has been evaluated exactly
\* once, so exactly the combinations of the infeasible cells were skipped.
C4_GridSkipsExactlyInfeasible ==
    /\ \A i \in DOMAIN gs_evaluated : StationaritySum(gs_evaluated[i].params) < 100
    /\ gs_best_params # None => StationaritySum(gs_best_params) < 100
    /\ gsPc = "returned" =>
         /\ \A c \in FeasibleCells(grid) : \A k \in 0..(NumInner(grid) - 1) :
                Cardinality({i \in DOMAIN gs_evaluated :
                                gs_evaluated[i].params = GridParams(grid, c, k)}) = 1
         /\ count = Len(gs_evaluated)
         /\ count = total_combinations(grid)
                      - NumInner(grid) * Cardinality(InfeasibleCells(grid))

C4_Witness ==
    /\ gsPc = "returned"
    /\ Cardinality(InfeasibleCells(grid)) = 1
    /\ count = 6
    /\ total_combinations(grid) = 8

MinError(ev) == CHOOSE e \in {ev[i].error : i \in DOMAIN ev} :
                    \A i \in DOMAIN ev : e <= ev[i].error

EarliestWith(ev, e) == CHOOSE i \in DOMAIN ev :
                           /\ ev[i].error = e
                           /\ \A j \in 1..(i - 1) : ev[j].error # e

BestIsRunningMinimum ==
    IF gs_evaluated = <<>>
    THEN gs_best_error = Inf /\ gs_best_params = None
    ELSE /\ gs_best_error = MinError(gs_evaluated)
         /\ gs_best_params = gs_evaluated[EarliestWith(gs_evaluated, gs_best_error)].params

\* C5: best_error starts at infinity and never increases; after each
\* evaluation it is the minimum objective value over the combinations
\* evaluated so far, and best_params is the earliest combination attaining it.
C5_BestErrorRunningMinimum ==
    /\ [](gsPc # "idle" => BestIsRunningMinimum)
    /\ [][gs_best_error' <= gs_best_error]_vars

\* a later combination ties with the best and the earlier one is kept
C5_Witness ==
    /\ Len(gs_evaluated) >= 3
    /\ gs_evaluated[1].error > gs_evaluated[2].error
    /\ gs_evaluated[3].error = gs_evaluated[2].error
    /\ gs_best_params = gs_evaluated[2].params

FiniteErrorsSeen == {e \in 0..MaxValErr : first_with_error[e] # 0}

LeastErrorSeen == CHOOSE e \in FiniteErrorsSeen : \A f \in FiniteErrorsSeen : e <= f

\* C6: when scipy_optimization returns and some run reported success with a
\* finite validation error, the returned parameters are those of the earliest
\* successful run whose validation error is the minimum over the successful
\* runs; a run that did not report success is never taken as best.
C6_ReturnsBestValidatedRun ==
    /\ best_result # None =>
          /\ \E e \in FiniteErrorsSeen : first_with_error[e] = best_result.run
          /\ best_params = ResultX(best_result.run)
    /\ (scPc = "returned" /\ FiniteErrorsSeen # {}) =>
          /\ sc_ret.result.type = "OptimizeResult"
          /\ sc_ret.result.success
          /\ sc_ret.result.run = first_with_error[LeastErrorSeen]
          /\ sc_ret.params = ResultX(first_with_error[LeastErrorSeen])
          /\ best_error = LeastErrorSeen

\* a later successful run ties with the minimum and the earlier one is returned
C6_Witness ==
    /\ scPc = "returned"
    /\ last_outcome = "success"
    /\ FiniteErrorsSeen = 0..MaxValErr
    /\ first_with_error[0] > first_with_error[1]
    /\ first_with_error[0] < NumAttempts
    /\ sc_ret.params = ResultX(first_with_error[0])

FailureResult ==
    [params |-> <<100, 8, 5, 2, 85, 5, 980, 2000, 10>>,
     result |-> [type |-> "dict", success |-> FALSE, fun |-> Inf]]

\* C7: if every attempt fails (the solver raises or reports success = false)
\* scipy_optimization returns the first starting point with a result whose
\* success flag is false, and optimize_garch_parameters passes it on unchanged.
C7_AllFailedReturnsFirstStart ==
    (scPc # "idle" /\ all_failed) =>
        /\ scPc \in {"loop", "returned"}
        /\ scAttempt = NumAttempts => ENABLED ScReturn \/ scPc = "returned"
        /\ scPc = "returned" => sc_ret = FailureResult
        /\ (scPc = "returned" /\ opt_ret # NoResult) => opt_ret = FailureResult

C7_Witness ==
    /\ all_failed
    /\ scAttempt = NumAttempts
    /\ opt_ret = FailureResult
    /\ ~sc_ret.result.success

FailedKinds == {"raised", "failed", "validate_raised"}

\* C8: a solver attempt that raises or reports non-convergence never stops
\* the search: it leaves the best result as it was and the loop goes on, so
\* by the time the function returns all 5 x 3 = 15 attempts were made, in order.
C8_FailureNeverStopsSearch ==
    /\ [](scPc = "returned" => scAttempt = 15)
    /\ [][scAttempt' # scAttempt =>
            /\ scAttempt' = scAttempt + 1
            /\ StartOf(scAttempt') \in 1..5
            /\ last_outcome' \in FailedKinds =>
                  /\ UNCHANGED <<best_result, best_error, best_params>>
                  /\ scPc' = "loop"]_vars

\* the last attempt fails after an earlier one succeeded, and the earlier
\* result is still the best
C8_Witness ==
    /\ scAttempt = NumAttempts
    /\ last_outcome = "raised"
    /\ best_result # None
    /\ best_result.run = 1

VolBracketInvariant ==
    /\ VolLow <= low
    /\ low < high
    /\ high <= VolHigh
    /\ vsPc = "returned" =>
          /\ 2 * vs_ret = low + high
          /\ VolLow <= vs_ret
          /\ vs_ret <= VolHigh

C10_StopsOnlyWhenNoProbeImproves ==
    [][vsIter' # vsIter =>
          /\ vsPc' = "break" => ~(error_low' < error_mid') /\ ~(error_high' < error_mid')
          /\ (error_low' < error_mid' \/ error_high' < error_mid') =>
                /\ vsPc' = "loop"
                /\ (high' = Mid(low, high) /\ low' = low)
                   \/ (low' = Mid(low, high) /\ high' = high)]_vars

\* C10 amended: the loop stops before the bracket is down to the tolerance
\* exactly when no probe has an error strictly below both the midpoint's and
\* the other probe's, i.e. when neither probe improves on the midpoint or
\* both improve on it with equal errors; when the lower probe's error is
\* strictly below both others high := mid, when the upper probe's is
\* low := mid, and the search continues.
C10_StopsUnlessOneProbeStrictlyBest ==
    [][vsIter' # vsIter =>
          LET el == error_low'
              em == error_mid'
              eh == error_high'
              m == (low + high) \div 2
          IN  /\ vsPc' = "break" <=>
                    \/ ~(el < em) /\ ~(eh < em)
                    \/ el < em /\ el = eh
              /\ (el < em /\ el < eh) => high' = m /\ low' = low /\ vsPc' = "loop"
              /\ (eh < em /\ eh < el) => low' = m /\ high' = high /\ vsPc' = "loop"]_vars

\* both probes improve on the midpoint with equal errors and the loop breaks
\* with the bracket still wider than the tolerance
C10_Witness ==
    /\ vsPc = "break"
    /\ high - low > Tolerance
    /\ error_low < error_mid
    /\ error_low = error_high

Dist(a, b) == IF a < b THEN b - a ELSE a - b

\* C11: when the error is a deterministic, strictly unimodal function of the
\* scale (fixed seed), the minimising scale is never excluded from the
\* bracket and the scale returned lies within one tolerance of it, so the
\* error at the returned scale is at most the steeper slope times the
\* tolerance.
C11_UnimodalMinimiserKept ==
    objective # Noisy =>
        /\ low <= objective.m
        /\ objective.m <= high
        /\ vsPc = "returned" =>
              /\ Dist(vs_ret, objective.m) <= Tolerance
              /\ SeededError(objective, vs_ret) <= MaxSlope * Tolerance

\* the search ran down to the tolerance and returns a scale that is not the
\* minimiser itself
C11_Witness ==
    /\ objective # Noisy
    /\ vsPc = "returned"
    /\ high - low <= Tolerance
    /\ vs_ret # objective.m
    /\ objective.down # objective.up

\* the search broke off early, next to the minimiser
C11_WitnessBreak ==
    /\ objective # Noisy
    /\ vsPc = "returned"
    /\ high - low > Tolerance
    /\ vs_ret # objective.m

\* C12: fed the same draws and the same omega, drift, initial_variance,
\* volatility_scale and n_simulations, the GARCH(3,2) simulator called with
\* alpha1 = alpha, beta1 = beta, alpha2 = alpha3 = beta2 = 0 produces the same
\* variance sequence and the same returns, step for step, as the GARCH(1,1)
\* simulator of test_garch.py.
C12_Garch32SpecialisesToGarch11 ==
    sim11Pc # "idle" =>
        /\ garch_data = garch_data11
        /\ variance_history[3] = variance

\* C13: calculate_statistics called on an empty return series fails with an
\* error and never returns a summary record, on the numpy path and on the
\* fallback path alike.
C13_EmptySeriesAlwaysFails ==
    (data = <<>> /\ statsPc \in {"returned", "raised"}) =>
        /\ statsPc = "raised"
        /\ stats = NoStats

\* C14: the all_percentiles_good result of run_multiple_realizations is false
\* exactly when at least one of the percentile statistics it collects (p05,
\* p10, p25, median, p75, p90, p95) has an absolute difference between its
\* across-realization mean and its target greater than 0.01, and true
\* otherwise.
C14_FlagsEveryBandOverTolerance ==
    rmPc = "returned" =>
        (rm_ret.all_percentiles_good = FALSE
            <=> \E stat \in CollectedPercentiles : abs_bias[stat] > BiasTolerance)

\* the expression of lines 108-113 on the window entries w3 (newest) to w1
\* (oldest), written out in the units of the model
GarchRecurrence(p, s1, s2, s3, v1, v2) ==
    (100 * omega(p) + 100 * alpha1(p) * s1 * s1 + 100 * alpha2(p) * s2 * s2
     + 100 * alpha3(p) * s3 * s3 + beta1(p) * v1 + beta2(p) * v2) \div 100

C16_WindowsOfThreeAndLengthN ==
    /\ [](simPc # "idle" =>
            /\ Len(shock_history) = 3
            /\ Len(variance_history) = 3
            /\ Len(garch_data) = simI
            /\ simI = 0 =>
                  /\ shock_history = <<0, 0, 0>>
                  /\ variance_history = <<initial_variance(simParams),
                                          initial_variance(simParams),
                                          initial_variance(simParams)>>
            /\ simPc = "returned" => Len(garch_data) = n_simulations)
    /\ [][simI' = simI + 1 =>
            /\ shock_history'[1] = shock_history[2]
            /\ shock_history'[2] = shock_history[3]
            /\ variance_history'[1] = variance_history[2]
            /\ variance_history'[2] = variance_history[3]
            /\ garch_data'[simI + 1] =
                  drift(simParams) + shock_history'[3] * ISqrt(variance_history[3])
            /\ Len(garch_data') = Len(garch_data) + 1]_vars

\* a returned run long enough for every initial window entry to have been
\* evicted, with three different shocks in the window
C16_Witness ==
    /\ simPc = "returned"
    /\ sim11Pc = "idle"
    /\ n_simulations > 3
    /\ Len(garch_data) = n_simulations
    /\ shock_history[1] # shock_history[2]
    /\ shock_history[2] # shock_history[3]
    /\ shock_history[1] # 0

\* the call with n_simulations = 0 returns the empty list
C16_WitnessEmpty ==
    /\ simPc = "returned"
    /\ sim11Pc = "idle"
    /\ n_simulations = 0
    /\ garch_data = <<>>

\* C17: whenever optimize_garch_parameters returns a result whose success
\* flag is true, the parameter set it returns is a complete set of 9 values
\* (never None) and the reported objective value is finite; here for the grid
\* search strategy, the built-in parameter ranges included.
C17_SuccessMeansParamsAndFiniteError ==
    (opt_ret # NoResult /\ opt_ret.result.success) =>
        /\ opt_ret.params # None
        /\ Len(opt_ret.params) = 9
        /\ opt_ret.result.fun < Inf

\* alpha1 + alpha2 + alpha3 + beta1 + beta2 < 1, in hundredths
Stationary(p) == p[2] + p[3] + p[4] + p[5] + p[6] < 100

\* C18: every one of the fixed starting points of scipy_optimization, and
\* therefore the fallback parameter set it returns when all attempts fail,
\* satisfies alpha1 + alpha2 + alpha3 + beta1 + beta2 < 1.
C18_StartingPointsStationary ==
    /\ (scPc = "loop" /\ scAttempt < NumAttempts) =>
            Stationary(starting_points[StartOf(scAttempt + 1)])
    /\ (scPc = "returned" /\ all_failed) => Stationary(sc_ret.params)

\* C19: find_volatility_scale terminates for every sequence of outcomes of
\* its noisy error evaluations: each pass of the loop either leaves the loop
\* or halves the width of the bracket, so that from [0.1, 3.0] with tolerance
\* 0.001 it makes at most 12 passes (at most 36 simulations), after which it
\* returns unless an evaluation raised.
C19_AtMostTwelvePasses ==
    /\ [](vsPc # "idle" => (vsIter <= 12 /\ 3 * vsIter <= 36))
    /\ [][vsIter' = vsIter + 1 =>
            \/ vsPc' = "break" /\ high' = high /\ low' = low
            \/ vsPc' = "loop" /\ 2 * (high' - low') = high - low]_vars
    /\ <>(vsPc \in {"returned", "raised"})

\* a search that ran all 12 passes and returned
C19_Witness ==
    /\ vsPc = "returned"
    /\ objective = Noisy
    /\ vsIter = 12
    /\ high - low <= Tolerance

\* C20: for every pair of uniform draws (u1, u2) the generator can return,
\* u1 = 0.0 included, a simulation step completes and emits a return: no draw
\* makes the Box-Muller transform undefined or the simulation raise.
C20_EveryDrawCompletesAStep ==
    /\ simPc # "raised"
    /\ u1 # "none" => Len(garch_data) = simI /\ simI > 0

\* C21: the objective value optimize_garch_parameters reports for a
\* successful multi-start run is the validation error by which the returned
\* parameter set was selected as best (the value compared against
\* best_error), not some other score of that run.
C21_ReportedObjectiveIsValidationError ==
    (scPc = "returned" /\ opt_ret # NoResult /\ opt_ret.result.success) =>
        opt_ret.result.fun = best_error

NonEmptySeries(o) == o.kind = "series" /\ o.len > 0

\* C22: fetch_with_retry makes at most max_retries attempts, one after the
\* other, and stops at the first attempt that yields a non-empty series,
\* which it returns; it never returns an empty series; if the final attempt
\* raises, that exception propagates; an exception on an earlier attempt is
\* followed by another attempt; if every attempt yields an empty series it
\* raises ValueError.
C22_RetryUntilFirstNonEmpty ==
    fwPc # "idle" =>
        /\ Len(fetch_log) <= max_retries
        /\ \A i \in 1..(Len(fetch_log) - 1) : ~NonEmptySeries(fetch_log[i])
        /\ fwPc = "loop" =>
              /\ attempt = Len(fetch_log)
              /\ \A i \in 1..Len(fetch_log) : ~NonEmptySeries(fetch_log[i])
        /\ fwPc = "returned" =>
              /\ fetch_log # <<>>
              /\ fw_ret = fetch_log[Len(fetch_log)]
              /\ NonEmptySeries(fw_ret)
        /\ fwPc = "raised" =>
              /\ Len(fetch_log) = max_retries
              /\ \A i \in 1..Len(fetch_log) : ~NonEmptySeries(fetch_log[i])
              /\ (max_retries > 0 /\ fetch_log[max_retries].kind = "raised") =>
                    /\ fw_ret.exc = fetch_log[max_retries].exc
                    /\ fw_ret.line = 33
              /\ (\A i \in 1..max_retries : fetch_log[i].kind = "series") =>
                    fw_ret = FetchFailure
        /\ \A i \in 1..Len(fetch_log) :
              (fetch_log[i].kind = "raised" /\ i < max_retries /\ fwPc # "loop")
                  => Len(fetch_log) > i

\* an earlier attempt raised, one came back empty, and the last one raised
\* an exception of another class, which reached the caller
C22_Witness ==
    /\ fwPc = "raised"
    /\ max_retries = 3
    /\ fetch_log[1].kind = "raised"
    /\ fetch_log[2].kind = "series"
    /\ fetch_log[3].kind = "raised"
    /\ fetch_log[3].exc = "HTTPError"
    /\ fetch_log[1].exc # fetch_log[3].exc
    /\ fw_ret.exc = "HTTPError"

\* a series is returned by the last attempt after an exception and an empty
\* series
C22_WitnessReturn ==
    /\ fwPc = "returned"
    /\ max_retries = 3
    /\ Len(fetch_log) = 3
    /\ fetch_log[1].kind = "raised"
    /\ fetch_log[2].kind = "series"
    /\ fw_ret.len = 2

\* every attempt came back empty
C22_WitnessAllEmpty ==
    /\ fwPc = "raised"
    /\ max_retries = 3
    /\ \A i \in 1..3 : fetch_log[i].kind = "series"
    /\ fw_ret = FetchFailure

====
